---- MODULE Spec2Model ----
(***************************************************************************)
(* Text2ChakraConverter (textconverter.back.py): conversion of a per-layer *)
(* training schedule into one execution trace per simulated device.        *)
(*                                                                         *)
(* One run of convert() is modelled: the dispatcher, then for the selected *)
(* builder one action per loop step (opening a device's file, starting a   *)
(* pass, one iteration of the forward loop, one iteration of the backward  *)
(* loop, the per-device clearing of slots).  A Python exception ends the   *)
(* run: what was written before it stays in the file.                      *)
(***************************************************************************)
EXTENDS Integers, Sequences, FiniteSets, TLC

(***************************************************************************)
(* Bounds of the explored inputs.                                          *)
(***************************************************************************)
MaxLayers == 3
MaxNpus == 2
MaxPasses == 2
MaxDims == 2

\* Python's None, for a slot or a local that holds no node.  A slot that
\* holds a node is modelled by that node's id (the only field read back).
None == -1

COMP_NODE == "COMP_NODE"
COMM_COLL_NODE == "COMM_COLL_NODE"
ALL_REDUCE == "ALL_REDUCE"
ALL_TO_ALL == "ALL_TO_ALL"
ALL_GATHER == "ALL_GATHER"
REDUCE_SCATTER == "REDUCE_SCATTER"
\* the literal 0 returned for any other kind string
UNKNOWN == "0"

(***************************************************************************)
(* Inputs.  Line 1 of the file is the mode tag (and the boundary for the   *)
(* DLRM tags), line 2 the declared layer count, the remaining lines the    *)
(* layer lines.                                                            *)
(***************************************************************************)
ModeTags == {"MICRO", "DATA", "MODEL", "HYBRID_DATA_MODEL", "HYBRID_MODEL_DATA",
             "CUSTOM", "HYBRID_DLRM", "HYBRID_DLRM_ENHANCED", "PIPELINE"}

DlrmTags == {"HYBRID_DLRM", "HYBRID_DLRM_ENHANCED"}

\* Columns 1, 3, 6 and 9 of the layer lines that are tried: the trainable
\* flag and the three communication kinds.
LineKinds ==
    { [reserved |-> 1, fwd |-> "ALLTOALL",      ig |-> "ALLREDUCE", wg |-> "ALLREDUCE"],
      [reserved |-> 0, fwd |-> "NONE",          ig |-> "NONE",      wg |-> "NONE"],
      [reserved |-> 0, fwd |-> "REDUCESCATTER", ig |-> "ALLTOALL",  wg |-> "ALLGATHER"] }

LayerNames == <<"A", "B", "C", "D", "E">>

\* The i-th layer line (i from 1): its name and its times follow from its
\* position, its sizes are 100.
InputLine(i, k) ==
    [ name |-> LayerNames[i], reserved |-> k.reserved,
      fwd_comp_time |-> 30 * (i - 1) + 10, fwd_comm_type |-> k.fwd, fwd_comm_size |-> 100,
      bwd_ig_comp_time |-> 30 * (i - 1) + 20, bwd_ig_comm_type |-> k.ig, bwd_ig_comm_size |-> 100,
      bwd_wg_comp_time |-> 30 * (i - 1) + 30, bwd_wg_comm_type |-> k.wg, bwd_wg_comm_size |-> 100,
      bwd_wg_update_time |-> "1" ]

\* the lists of layer lines whose every line has its twelve columns
WellFormedLines ==
    UNION { { [i \in 1..n |-> InputLine(i, ks[i])] : ks \in [1..n -> LineKinds] } : n \in 1..MaxLayers }

\* The twelve columns of a layer line, in order.
Columns == << "name", "reserved", "fwd_comp_time", "fwd_comm_type", "fwd_comm_size",
              "bwd_ig_comp_time", "bwd_ig_comm_type", "bwd_ig_comm_size",
              "bwd_wg_comp_time", "bwd_wg_comm_type", "bwd_wg_comm_size",
              "bwd_wg_update_time" >>

\* The line cut after its first c columns.
CutLine(line, c) == [f \in { Columns[j] : j \in 1..c } |-> line[f]]

\* The column counts of the lines that are tried: 12 is a whole line, the
\* others are lines that stop early (after the flag, before the last column).
ColumnCounts == {2, 11, 12}

\* the first line kind of the catalogue, used where the kinds do not matter
PlainKind == [reserved |-> 1, fwd |-> "ALLTOALL", ig |-> "ALLREDUCE", wg |-> "ALLREDUCE"]

\* the lists of layer lines of which at least one stops early
MalformedLines ==
    UNION { { [i \in 1..n |-> CutLine(InputLine(i, PlainKind), cs[i])] :
                cs \in { c \in [1..n -> ColumnCounts] : \E i \in 1..n : c[i] # 12 } } :
            n \in 1..MaxLayers }

InputLines == WellFormedLines \cup MalformedLines

\* The declared layer count is the number of layer lines, one less or one more.
DeclaredCounts(n) == {n - 1, n, n + 1}

\* The boundary token of a DLRM header.
Boundaries == -1..(MaxLayers - 1)

VARIABLES
    parallelism_type,   \* first_line[0]
    last_bottom_layer,  \* int(first_line[1]), DLRM tags only (0 otherwise, never read)
    num_layers,         \* the declared layer count (line 2)
    lines,              \* the layer lines of the input file
    num_dims, num_npus, num_passes,
    pc,                 \* "convert", "npu", "pass", "fwd", "bwd", "done", "error"
    error,              \* the exception that ended the run, NoError if none
    layers,             \* the Layer objects, slots included
    layer_types,        \* self.layer_types (CUSTOM)
    next_node_id,       \* self.next_node_id
    npu_id, pass, idx,  \* the loop variables
    fwd_comp_node, fwd_comm_node, prev_comp_node,   \* builder locals
    files,              \* files[d + 1]: the records written to <output>.d.et
    log                 \* log[d + 1][k]: pass, layer index and role of files[d + 1][k]

inputs == <<parallelism_type, last_bottom_layer, num_layers, lines, num_dims, num_npus, num_passes>>
locals == <<fwd_comp_node, fwd_comm_node, prev_comp_node>>
vars == <<parallelism_type, last_bottom_layer, num_layers, lines, num_dims, num_npus,
          num_passes, pc, error, layers, layer_types, next_node_id, npu_id, pass, idx,
          fwd_comp_node, fwd_comm_node, prev_comp_node, files, log>>

Range(s) == { s[i] : i \in 1..Len(s) }

(***************************************************************************)
(* Exceptions: the class, the message text and the values formatted into   *)
(* it.  The two raised by the interpreter carry its own text.              *)
(***************************************************************************)
Raised(type, text, args) == [type |-> type, text |-> text, args |-> args]

NoError == Raised("", "", << >>)

\* add_parent reads parent_node.id of None
AttributeError == Raised("AttributeError", "'NoneType' object has no attribute 'id'", << >>)

\* a list is indexed past its end
IndexError == Raised("IndexError", "list index out of range", << >>)

\* raise ValueError(f"Cannot parse the following layer -- \"{line}\"")
CannotParse(line) == Raised("ValueError", "Cannot parse the following layer -- ", << line >>)

\* raise ValueError(f"Unsupported parallelism type, {parallelism_type}")
Unsupported(tag) == Raised("ValueError", "Unsupported parallelism type, ", << tag >>)

\* raise ValueError("fwd_comp_node is None") and its like
IsNone(what) == Raised("ValueError", what, << >>)

\* raise RuntimeError("Unknown compute type:", self.layer_types[idx])
UnknownComputeType(kind) == Raised("RuntimeError", "Unknown compute type:", << kind >>)

(***************************************************************************)
(* Layer.__init__: the parsed line plus six empty slots.                   *)
(***************************************************************************)
Layer(line) ==
    [ name |-> line.name, is_trainable |-> (line.reserved > 0),
      fwd_comp_time |-> line.fwd_comp_time, fwd_comm_type |-> line.fwd_comm_type,
      fwd_comm_size |-> line.fwd_comm_size,
      fwd_comp_node |-> None, fwd_comm_node |-> None,
      bwd_ig_comp_time |-> line.bwd_ig_comp_time, bwd_ig_comm_type |-> line.bwd_ig_comm_type,
      bwd_ig_comm_size |-> line.bwd_ig_comm_size,
      bwd_ig_comp_node |-> None, bwd_ig_comm_node |-> None,
      bwd_wg_comp_time |-> line.bwd_wg_comp_time, bwd_wg_comm_type |-> line.bwd_wg_comm_type,
      bwd_wg_comm_size |-> line.bwd_wg_comm_size, bwd_wg_update_time |-> line.bwd_wg_update_time,
      bwd_wg_comp_node |-> None, bwd_wg_comm_node |-> None ]

\* Layer.__init__ reaches the end of its try block: the line has all its
\* columns (col[11] exists).
Parses(line) == DOMAIN line = Range(Columns)

\* The lines of f on which Layer.__init__ raises.
Unparsed(f) == { i \in 1..Len(f) : ~Parses(f[i]) }

\* FirstUnparsed when the last bad line is the one reported
FirstUnparsed_last(f) == f[CHOOSE i \in Unparsed(f) : \A j \in Unparsed(f) : i >= j]

\* The line whose Layer.__init__ raises: the lines are taken in order.
FirstUnparsed(f) == f[CHOOSE i \in Unparsed(f) : \A j \in Unparsed(f) : i <= j]

\* get_layers: one Layer per remaining line of the file; num_layers is not
\* used.  (The callers test Unparsed first.)
get_layers(f, n) == [i \in 1..Len(f) |-> Layer(f[i])]

\* get_global_metadata: the schema string and the raw input text.
get_global_metadata ==
    [ type |-> "GlobalMetadata",
      attr |-> << [name |-> "schema", string_val |-> "1.0.2-chakra.0.0.4"],
                  [name |-> "input_file", string_val |-> "input_text"] >> ]

\* get_node when the counter is never advanced (every node gets id 0)
get_node_stuck(id, name, node_type) ==
    [ type |-> node_type, id |-> 0, name |-> name, duration_micros |-> 0,
      attr |-> << >>, data_deps |-> << >> ]

\* get_node with the id the counter holds; the caller advances the counter.
get_node(id, name, node_type) ==
    [ type |-> node_type, id |-> id, name |-> name, duration_micros |-> 0,
      attr |-> << >>, data_deps |-> << >> ]

get_comp_node(id, layer_name, phase, comp_time) ==
    [ get_node(id, <<"COMP_NODE", layer_name, phase>>, COMP_NODE)
        EXCEPT !.duration_micros = comp_time ]

\* get_comm_type when the fall-through returns the first kind
get_comm_type_first(comm_type) ==
    IF comm_type = "ALLTOALL" THEN ALL_TO_ALL
    ELSE IF comm_type = "ALLGATHER" THEN ALL_GATHER
    ELSE IF comm_type = "REDUCESCATTER" THEN REDUCE_SCATTER
    ELSE ALL_REDUCE

get_comm_type(comm_type) ==
    IF comm_type = "ALLREDUCE" THEN ALL_REDUCE
    ELSE IF comm_type = "ALLTOALL" THEN ALL_TO_ALL
    ELSE IF comm_type = "ALLGATHER" THEN ALL_GATHER
    ELSE IF comm_type = "REDUCESCATTER" THEN REDUCE_SCATTER
    ELSE UNKNOWN

get_comm_coll_node(id, layer_name, comm_type, comm_size) ==
    [ get_node(id, <<"COMM_COLL_NODE", layer_name, comm_type>>, COMM_COLL_NODE)
        EXCEPT !.attr = << [name |-> "comm_type", int64_val |-> get_comm_type(comm_type)],
                           [name |-> "comm_size", uint64_val |-> comm_size] >> ]

\* add_parent for a parent that is a node; a parent of None raises
\* AttributeError, which the callers test with Raises.
add_parent(child_node, parent_id) ==
    [ child_node EXCEPT !.data_deps = Append(@, parent_id) ]

\* add_parent applied to each of parents in turn.
RECURSIVE add_parents(_, _)
add_parents(child_node, parents) ==
    IF parents = << >> THEN child_node
    ELSE add_parents(add_parent(child_node, Head(parents)), Tail(parents))

\* Raises when add_parent accepts None as a parent
Raises_never(parents) == FALSE

\* Some add_parent of the sequence is given None.
Raises(parents) == None \in Range(parents)

\* The involved_dim attribute: first, then n more values rest
\* (range(n) is empty for n <= 0).
involved_dim(prefix, n, rest) ==
    [ name |-> "involved_dim",
      bool_list |-> prefix \o [k \in 1..(IF n > 0 THEN n ELSE 0) |-> rest] ]

with_attr(node, a) == [ node EXCEPT !.attr = Append(@, a) ]

\* layers[i] for a Python index i >= 0
At(s, i) == s[i + 1]

\* the log entry of a record written in pass p for layer l
TagAt(p, l, role) == [pass |-> p, layer |-> l, role |-> role]

Tag(l, role) == TagAt(pass, l, role)

(***************************************************************************)
(* The state after construction: the inputs are chosen, nothing has run.   *)
(***************************************************************************)
Init ==
    /\ parallelism_type \in ModeTags
    /\ lines \in InputLines
    /\ num_layers \in DeclaredCounts(Len(lines))
    /\ last_bottom_layer \in (IF parallelism_type \in DlrmTags THEN Boundaries ELSE {0})
    /\ num_dims \in 0..MaxDims
    /\ num_npus \in 1..MaxNpus
    /\ num_passes \in 1..MaxPasses
    /\ pc = "convert"
    /\ error = NoError
    /\ layers = << >>
    /\ layer_types = << >>
    /\ next_node_id = 0
    /\ npu_id = 0 /\ pass = 0 /\ idx = 0
    /\ fwd_comp_node = None /\ fwd_comm_node = None /\ prev_comp_node = None
    /\ files = << >>
    /\ log = << >>

\* The run ends with exception e; everything else is given by the caller.
Abort(e) == pc' = "error" /\ error' = e

\* Records recs (with their tags) are written to the open file of npu_id.
Write(recs, tags) ==
    /\ files' = [files EXCEPT ![npu_id + 1] = @ \o recs]
    /\ log' = [log EXCEPT ![npu_id + 1] = @ \o tags]

(***************************************************************************)
(* CUSTOM classification (lines 192-212).  layers[layer_id] raises         *)
(* IndexError when the declared count exceeds the number of lines.         *)
(***************************************************************************)
\* has_trainable_underneath when the layer itself is counted
has_trainable_underneath_inclusive(ls, layer_id) ==
    \E j \in 0..layer_id : At(ls, j).is_trainable

has_trainable_underneath(ls, layer_id) ==
    \E j \in 0..(layer_id - 1) : At(ls, j).is_trainable

layer_type(ls, layer_id) ==
    IF At(ls, layer_id).is_trainable
    THEN (IF has_trainable_underneath(ls, layer_id) THEN "FP+IG+WG" ELSE "FP+WG")
    ELSE (IF has_trainable_underneath(ls, layer_id) THEN "FP+IG" ELSE "FP")

classify(ls, n) == [i \in 1..n |-> layer_type(ls, i - 1)]

(***************************************************************************)
(* convert: the dispatch on the mode tag, and the selected builder up to   *)
(* its device loop (get_layers, and for CUSTOM the classification).        *)
(***************************************************************************)
\* Supported when the dispatch has no else branch
Supported_any == ModeTags

\* the tags one of the branches of the dispatch takes
Supported ==
    {"MICRO", "DATA", "MODEL", "HYBRID_DATA_MODEL", "HYBRID_MODEL_DATA", "CUSTOM",
     "HYBRID_DLRM", "HYBRID_DLRM_ENHANCED"}

convert ==
    /\ pc = "convert"
    /\ UNCHANGED <<inputs, next_node_id, npu_id, pass, idx, locals, files, log>>
    /\ IF parallelism_type \notin Supported
       THEN /\ Abort(Unsupported(parallelism_type))
            /\ UNCHANGED <<layers, layer_types>>
       ELSE IF Unparsed(lines) # {}
       THEN /\ Abort(CannotParse(FirstUnparsed(lines)))
            /\ UNCHANGED <<layers, layer_types>>
       ELSE /\ layers' = get_layers(lines, num_layers)
            /\ IF parallelism_type = "CUSTOM"
               THEN IF num_layers > Len(lines)
                    THEN /\ Abort(IndexError)
                         /\ layer_types' = classify(layers', Len(lines))
                    ELSE /\ layer_types' = classify(layers', num_layers)
                         /\ pc' = "npu"
                         /\ UNCHANGED error
               ELSE /\ pc' = "npu"
                    /\ UNCHANGED <<error, layer_types>>

(***************************************************************************)
(* The device loop and the pass loop shared by the builders' shape.        *)
(***************************************************************************)
\* device_header when every builder, CUSTOM included, writes the metadata
device_header_always(mode) == << get_global_metadata >>

\* What a builder writes on opening a device's file: the global metadata,
\* except in convert_custom_paralellism, which writes nothing.
device_header(mode) ==
    IF mode = "CUSTOM" THEN << >> ELSE << get_global_metadata >>

\* for npu_id in range(num_npus): open "<output>.<npu_id>.et", write the header.
open_file ==
    /\ pc = "npu"
    /\ npu_id < num_npus
    /\ files' = Append(files, device_header(parallelism_type))
    /\ log' = Append(log, [k \in 1..Len(device_header(parallelism_type)) |->
                              [pass |-> -1, layer |-> -1, role |-> "metadata"]])
    /\ pass' = 0
    /\ pc' = "pass"
    /\ UNCHANGED <<inputs, error, layers, layer_types, next_node_id, npu_id, idx, locals>>

\* the device loop is exhausted: the builder and convert return.
finish ==
    /\ pc = "npu"
    /\ npu_id >= num_npus
    /\ pc' = "done"
    /\ UNCHANGED <<inputs, error, layers, layer_types, next_node_id, npu_id, pass, idx,
                   locals, files, log>>

\* for i in range(num_passes): the local of the pass is reset to None.
begin_pass ==
    /\ pc = "pass"
    /\ pass < num_passes
    /\ idx' = 0
    /\ pc' = "fwd"
    /\ fwd_comp_node' = (IF parallelism_type \in {"CUSTOM", "DATA"} \cup DlrmTags
                         THEN None ELSE fwd_comp_node)
    /\ fwd_comm_node' = (IF parallelism_type \in {"MODEL", "HYBRID_DATA_MODEL", "HYBRID_MODEL_DATA"}
                         THEN None ELSE fwd_comm_node)
    /\ UNCHANGED <<inputs, error, layers, layer_types, next_node_id, npu_id, pass,
                   prev_comp_node, files, log>>

\* clear_slots when the clearing loop is left out
clear_slots_none(mode, layer) == layer

\* The slots each builder clears after a device's passes.
clear_slots(mode, layer) ==
    IF mode \in {"DATA", "HYBRID_DATA_MODEL", "HYBRID_MODEL_DATA"}
    THEN [layer EXCEPT !.bwd_wg_comm_node = None]
    ELSE IF mode = "MODEL"
    THEN [layer EXCEPT !.bwd_wg_comp_node = None]
    ELSE IF mode \in DlrmTags
    THEN [layer EXCEPT !.bwd_wg_comm_node = None, !.bwd_wg_comp_node = None,
                       !.bwd_ig_comm_node = None, !.bwd_ig_comp_node = None]
    ELSE layer   \* MICRO clears nothing; CUSTOM's clearing is commented out

\* the passes of a device are over: its file is closed, slots are cleared.
end_device ==
    /\ pc = "pass"
    /\ pass >= num_passes
    /\ layers' = [i \in 1..Len(layers) |-> clear_slots(parallelism_type, layers[i])]
    /\ npu_id' = npu_id + 1
    /\ pc' = "npu"
    /\ UNCHANGED <<inputs, error, layer_types, next_node_id, pass, idx, locals, files, log>>

(***************************************************************************)
(* One iteration of a builder's loop is computed as a record:              *)
(*   err   the exception raised in it, NoError if none                     *)
(*   used  the ids taken from the counter (a node that an exception keeps  *)
(*         from being written has still taken its id)                      *)
(*   recs  the nodes written, in order, and tags their log entries         *)
(*   layers  the Layer objects after the slot assignments                  *)
(***************************************************************************)
Iter(err, used, recs, tags, ls) ==
    [err |-> err, used |-> used, recs |-> recs, tags |-> tags, layers |-> ls]

\* The effect of a forward iteration r on the shared state;
\* after the last layer the backward loop starts.
ApplyFwd(r) ==
    /\ next_node_id' = next_node_id + r.used
    /\ Write(r.recs, r.tags)
    /\ layers' = r.layers
    /\ IF r.err # NoError
       THEN Abort(r.err) /\ UNCHANGED <<idx, pass>>
       ELSE /\ UNCHANGED <<error, pass>>
            /\ IF idx + 1 < Len(layers)
               THEN idx' = idx + 1 /\ pc' = "fwd"
               ELSE idx' = 0 /\ pc' = "bwd"

\* The effect of a backward iteration r (of the only loop, for MICRO);
\* after the last layer the next pass starts.
ApplyBwd(r) ==
    /\ next_node_id' = next_node_id + r.used
    /\ Write(r.recs, r.tags)
    /\ layers' = r.layers
    /\ IF r.err # NoError
       THEN Abort(r.err) /\ UNCHANGED <<idx, pass>>
       ELSE /\ UNCHANGED error
            /\ IF idx + 1 < Len(layers)
               THEN idx' = idx + 1 /\ pc' = pc /\ pass' = pass
               ELSE idx' = 0 /\ pc' = "pass" /\ pass' = pass + 1

AllTrue == involved_dim(<< >>, num_dims, TRUE)

(***************************************************************************)
(* convert_microbenchmark (lines 325-337)                                  *)
(***************************************************************************)
\* micro_node when each node is chained to the node made before it
micro_node_chained(id, layer) ==
    LET node == with_attr(get_comm_coll_node(id, layer.name, layer.bwd_wg_comm_type,
                                             layer.bwd_wg_comm_size), AllTrue)
    IN  IF id > 0 THEN add_parent(node, id - 1) ELSE node

micro_node(id, layer) ==
    with_attr(get_comm_coll_node(id, layer.name, layer.bwd_wg_comm_type,
                                 layer.bwd_wg_comm_size), AllTrue)

convert_microbenchmark ==
    /\ pc = "fwd"
    /\ parallelism_type = "MICRO"
    /\ ApplyBwd(Iter(NoError, 1, << micro_node(next_node_id, At(layers, idx)) >>,
                     << Tag(idx, "bwd_wg_comm") >>, layers))
    /\ UNCHANGED <<inputs, layer_types, npu_id, locals>>

(***************************************************************************)
(* convert_data_parallel (lines 350-398)                                   *)
(***************************************************************************)
\* data_fwd_parents without the link to the previous pass
data_fwd_parents_chain_only(ls, i) ==
    IF i # 0 THEN << At(ls, i - 1).fwd_comp_node >> ELSE << >>

\* the parents given to layer i's forward compute node, in order
data_fwd_parents(ls, i) ==
    (IF i # 0 THEN << At(ls, i - 1).fwd_comp_node >> ELSE << >>)
    \o (IF At(ls, i).bwd_wg_comm_node # None THEN << At(ls, i).bwd_wg_comm_node >> ELSE << >>)

data_parallel_forward ==
    LET layer == At(layers, idx)
        id == next_node_id
        parents == data_fwd_parents(layers, idx)
        node == add_parents(get_comp_node(id, layer.name, "FWD", layer.fwd_comp_time), parents)
    IN  IF Raises(parents)
        THEN Iter(AttributeError, 1, << >>, << >>, layers)
        ELSE Iter(NoError, 1, << node >>, << Tag(idx, "fwd_comp") >>,
                  [layers EXCEPT ![idx + 1].fwd_comp_node = id])

\* data_has_ig when the test on the last iteration is left out
data_has_ig_always(i, n) == TRUE

\* whether the backward iteration i (from 0) of n also makes an
\* input-gradient compute node
data_has_ig(i, n) == i # n - 1

\* data_wg_parents when every iteration links to the last forward node
data_wg_parents_last_forward(ls, i, n) == << fwd_comp_node >>

\* the parent given to the weight-gradient compute node of backward
\* iteration i (from 0) over n layers
data_wg_parents(ls, i, n) ==
    IF i = 0 THEN << fwd_comp_node >> ELSE << At(ls, n - i).bwd_ig_comp_node >>

data_parallel_backward ==
    LET n == Len(layers)
        li == n - 1 - idx
        layer == At(layers, li)
        id == next_node_id
        parents == data_wg_parents(layers, idx, n)
        wg == add_parents(get_comp_node(id, layer.name, "BWD_WG", layer.bwd_wg_comp_time),
                          parents)
        comm == add_parent(with_attr(get_comm_coll_node(id + 1, layer.name,
                               layer.bwd_wg_comm_type, layer.bwd_wg_comm_size), AllTrue), id)
        ig == add_parent(get_comp_node(id + 2, layer.name, "BWD_IG", layer.bwd_ig_comp_time), id)
    IN  IF idx = 0 /\ fwd_comp_node = None
        THEN Iter(IsNone("fwd_comp_node is None"), 1, << >>, << >>, layers)
        ELSE IF Raises(parents)
        THEN Iter(AttributeError, 1, << >>, << >>, layers)
        ELSE IF data_has_ig(idx, n)
        THEN Iter(NoError, 3, << wg, comm, ig >>,
                  << Tag(li, "bwd_wg_comp"), Tag(li, "bwd_wg_comm"), Tag(li, "bwd_ig_comp") >>,
                  [layers EXCEPT ![li + 1].bwd_wg_comm_node = id + 1,
                                 ![li + 1].bwd_ig_comp_node = id + 2])
        ELSE Iter(NoError, 2, << wg, comm >>,
                  << Tag(li, "bwd_wg_comp"), Tag(li, "bwd_wg_comm") >>,
                  [layers EXCEPT ![li + 1].bwd_wg_comm_node = id + 1])

convert_data_parallel ==
    /\ parallelism_type = "DATA"
    /\ \/ /\ pc = "fwd"
          /\ ApplyFwd(data_parallel_forward)
          /\ fwd_comp_node' = next_node_id
          /\ UNCHANGED <<fwd_comm_node, prev_comp_node>>
       \/ /\ pc = "bwd"
          /\ ApplyBwd(data_parallel_backward)
          /\ UNCHANGED locals
    /\ UNCHANGED <<inputs, layer_types, npu_id>>

(***************************************************************************)
(* convert_model_parallel (lines 413-474), convert_hybrid_data_model       *)
(* (lines 490-565) and convert_hybrid_model_data (lines 581-654): the same *)
(* loops, which differ in the order of the forward parents, the slots set, *)
(* the involved_dim values and the extra weight-gradient communication.    *)
(***************************************************************************)
\* involved_dim of the forward and input-gradient communication nodes
model_dims(mode) ==
    IF mode = "HYBRID_DATA_MODEL" THEN involved_dim(<< TRUE >>, num_dims - 1, FALSE)
    ELSE IF mode = "HYBRID_MODEL_DATA" THEN involved_dim(<< FALSE >>, num_dims - 1, TRUE)
    ELSE AllTrue

\* data_dims when the weight-gradient nodes get the dimensions of the others
data_dims_as_model(mode) == model_dims(mode)

\* involved_dim of the weight-gradient communication nodes (hybrid builders)
data_dims(mode) ==
    IF mode = "HYBRID_DATA_MODEL" THEN involved_dim(<< FALSE >>, num_dims - 1, TRUE)
    ELSE involved_dim(<< TRUE >>, num_dims - 1, FALSE)

\* model_fwd_parents when the hybrid builders leave out the link to the
\* previous layer
model_fwd_parents_hybrid_unchained(mode, ls, i) ==
    IF mode = "MODEL"
    THEN (IF i # 0 THEN << At(ls, i - 1).fwd_comm_node >> ELSE << >>)
         \o (IF At(ls, i).bwd_wg_comp_node # None THEN << At(ls, i).bwd_wg_comp_node >> ELSE << >>)
    ELSE (IF At(ls, i).bwd_wg_comm_node # None THEN << At(ls, i).bwd_wg_comm_node >> ELSE << >>)

\* the parents given to layer i's forward compute node, in order
model_fwd_parents(mode, ls, i) ==
    IF mode = "MODEL"
    THEN (IF i # 0 THEN << At(ls, i - 1).fwd_comm_node >> ELSE << >>)
         \o (IF At(ls, i).bwd_wg_comp_node # None THEN << At(ls, i).bwd_wg_comp_node >> ELSE << >>)
    ELSE (IF At(ls, i).bwd_wg_comm_node # None THEN << At(ls, i).bwd_wg_comm_node >> ELSE << >>)
         \o (IF i # 0 THEN << At(ls, i - 1).fwd_comm_node >> ELSE << >>)

\* The forward iteration i of pass p, on the Layer objects ls, the counter
\* being at id.
model_forward_at(mode, ls, i, id, p) ==
    LET layer == At(ls, i)
        parents == model_fwd_parents(mode, ls, i)
        comp == add_parents(get_comp_node(id, layer.name, "FWD", layer.fwd_comp_time), parents)
        comm == add_parent(with_attr(get_comm_coll_node(id + 1, layer.name,
                               layer.fwd_comm_type, layer.fwd_comm_size), model_dims(mode)), id)
    IN  IF Raises(parents)
        THEN Iter(AttributeError, 1, << >>, << >>, ls)
        ELSE Iter(NoError, 2, << comp, comm >>,
                  << TagAt(p, i, "fwd_comp"), TagAt(p, i, "fwd_comm") >>,
                  [ls EXCEPT ![i + 1].fwd_comp_node = IF mode = "MODEL" THEN id ELSE @,
                             ![i + 1].fwd_comm_node = id + 1])

model_forward(mode) == model_forward_at(mode, layers, idx, next_node_id, pass)

\* model_has_ig_comm when the test on the last iteration is left out
model_has_ig_comm_always(i) == TRUE

\* whether the backward iteration i (from 0) also makes an input-gradient
\* communication node: the test is against the declared count
model_has_ig_comm(i) == i # num_layers - 1

\* the name of the input-gradient communication node
ig_comm_node(mode, id, layer) ==
    IF mode = "HYBRID_DATA_MODEL"
    THEN [ get_comm_coll_node(id, layer.name, layer.bwd_ig_comm_type, layer.bwd_ig_comm_size)
             EXCEPT !.name = <<"COMM_COLL_NODE", layer.name, "_IG_COMM_", layer.bwd_ig_comm_type>> ]
    ELSE get_comm_coll_node(id, layer.name, layer.bwd_ig_comm_type, layer.bwd_ig_comm_size)

\* The backward iteration i of pass p, on the Layer objects ls, the counter
\* being at id and the local fwd_comm_node holding fcn.
model_backward_at(mode, ls, i, id, p, fcn) ==
    LET n == Len(ls)
        li == n - 1 - i
        layer == At(ls, li)
        parents == IF i = 0 THEN << fcn >>
                   ELSE << At(ls, n - i).bwd_wg_comp_node,
                           At(ls, n - i).bwd_ig_comm_node >>
        ig == add_parents(get_comp_node(id, layer.name, "BWD_IG", layer.bwd_ig_comp_time),
                          parents)
        has == model_has_ig_comm(i)
        k == IF has THEN 1 ELSE 0
        igc == add_parent(with_attr(ig_comm_node(mode, id + 1, layer), model_dims(mode)), id)
        wg == add_parent(get_comp_node(id + k + 1, layer.name, "BWD_WG",
                                       layer.bwd_wg_comp_time), id)
        wgc == add_parent(with_attr(get_comm_coll_node(id + k + 2, layer.name,
                              layer.bwd_wg_comm_type, layer.bwd_wg_comm_size),
                              data_dims(mode)), id + k + 1)
        hybrid == mode # "MODEL"
        ls1 == IF has THEN [ls EXCEPT ![li + 1].bwd_ig_comm_node = id + 1] ELSE ls
        ls2 == [ls1 EXCEPT ![li + 1].bwd_wg_comp_node = id + k + 1]
        ls3 == IF hybrid THEN [ls2 EXCEPT ![li + 1].bwd_wg_comm_node = id + k + 2] ELSE ls2
    IN  IF i = 0 /\ fcn = None
        THEN Iter(IsNone("fwd_comm_node is None"), 1, << >>, << >>, ls)
        ELSE IF Raises(parents)
        THEN Iter(AttributeError, 1, << >>, << >>, ls)
        ELSE Iter(NoError, k + 2 + (IF hybrid THEN 1 ELSE 0),
                  << ig >> \o (IF has THEN << igc >> ELSE << >>) \o << wg >>
                     \o (IF hybrid THEN << wgc >> ELSE << >>),
                  << TagAt(p, li, "bwd_ig_comp") >>
                     \o (IF has THEN << TagAt(p, li, "bwd_ig_comm") >> ELSE << >>)
                     \o << TagAt(p, li, "bwd_wg_comp") >>
                     \o (IF hybrid THEN << TagAt(p, li, "bwd_wg_comm") >> ELSE << >>),
                  ls3)

model_backward(mode) ==
    model_backward_at(mode, layers, idx, next_node_id, pass, fwd_comm_node)

\* the two loops of one of the three builders
model_loops(mode) ==
    /\ parallelism_type = mode
    /\ \/ /\ pc = "fwd"
          /\ ApplyFwd(model_forward(mode))
          /\ fwd_comm_node' = (IF model_forward(mode).err = NoError THEN next_node_id + 1
                               ELSE fwd_comm_node)
          /\ UNCHANGED <<fwd_comp_node, prev_comp_node>>
       \/ /\ pc = "bwd"
          /\ ApplyBwd(model_backward(mode))
          /\ UNCHANGED locals
    /\ UNCHANGED <<inputs, layer_types, npu_id>>

\* The passes of device 0 as one of the three builders runs them, from
\* iteration i of the given loop of pass p on: s holds the Layer objects,
\* the counter, the local fwd_comm_node, the nodes written so far and the
\* exception raised, if any.
RECURSIVE model_sweep(_, _, _, _, _)
model_sweep(mode, s, p, phase, i) ==
    IF s.err # NoError \/ p >= num_passes THEN s
    ELSE LET r == IF phase = "fwd" THEN model_forward_at(mode, s.layers, i, s.id, p)
                  ELSE model_backward_at(mode, s.layers, i, s.id, p, s.fcn)
             t == [ layers |-> r.layers, id |-> s.id + r.used,
                    fcn |-> IF phase = "fwd" /\ r.err = NoError THEN s.id + 1 ELSE s.fcn,
                    recs |-> s.recs \o r.recs, err |-> r.err ]
         IN  IF i + 1 < Len(s.layers) THEN model_sweep(mode, t, p, phase, i + 1)
             ELSE IF phase = "fwd" THEN model_sweep(mode, t, p, "bwd", 0)
             ELSE model_sweep(mode, [t EXCEPT !.fcn = None], p + 1, "fwd", 0)

\* The nodes one of the three builders writes to device 0's file for the
\* input of the run.
model_trace(mode) ==
    model_sweep(mode, [ layers |-> get_layers(lines, num_layers), id |-> 0, fcn |-> None,
                        recs |-> << >>, err |-> NoError ], 0, "fwd", 0).recs

convert_model_parallel == model_loops("MODEL")

convert_hybrid_data_model == model_loops("HYBRID_DATA_MODEL")

convert_hybrid_model_data == model_loops("HYBRID_MODEL_DATA")

(***************************************************************************)
(* convert_custom_paralellism (lines 222-310)                              *)
(***************************************************************************)
custom_forward ==
    LET layer == At(layers, idx)
        id == next_node_id
        parents == IF idx # 0 THEN << At(layers, idx - 1).fwd_comp_node >> ELSE << >>
        node == add_parents(get_comp_node(id, layer.name, "FWD", layer.fwd_comp_time), parents)
    IN  IF Raises(parents)
        THEN Iter(AttributeError, 1, << >>, << >>, layers)
        ELSE Iter(NoError, 1, << node >>, << Tag(idx, "fwd_comp") >>,
                  [layers EXCEPT ![idx + 1].fwd_comp_node = id])

\* The kind that decides the backward iteration i (from 0): the loop runs
\* over reversed(layers) and indexes layer_types with its own counter.
custom_kind(i) == At(layer_types, i)

\* the node the first chained node of a backward iteration is linked to
custom_chain(i) == IF i = 0 THEN fwd_comp_node ELSE prev_comp_node

custom_backward ==
    LET n == Len(layers)
        li == n - 1 - idx
        layer == At(layers, li)
        id == next_node_id
        kind == custom_kind(idx)
        chain == << custom_chain(idx) >>
        ig == get_comp_node(id, layer.name, "BWD_IG", layer.bwd_ig_comp_time)
        wg == get_comp_node(id, layer.name, "BWD_WG", layer.bwd_wg_comp_time)
        wg2 == get_comp_node(id + 1, layer.name, "BWD_WG", layer.bwd_wg_comp_time)
    IN  IF idx >= Len(layer_types)
        THEN Iter(IndexError, 0, << >>, << >>, layers) @@ [prev |-> prev_comp_node]
        ELSE IF kind = "FP"
        THEN Iter(NoError, 0, << >>, << >>,
                  [layers EXCEPT ![li + 1].bwd_ig_comp_node = None,
                                 ![li + 1].bwd_wg_comp_node = None])
             @@ [prev |-> prev_comp_node]
        ELSE IF kind = "FP+IG"
        THEN IF Raises(chain)
             THEN Iter(AttributeError, 1, << >>, << >>, layers) @@ [prev |-> prev_comp_node]
             ELSE Iter(NoError, 1, << add_parents(ig, chain) >>, << Tag(li, "bwd_ig_comp") >>,
                       [layers EXCEPT ![li + 1].bwd_ig_comp_node = id,
                                      ![li + 1].bwd_wg_comp_node = None])
                  @@ [prev |-> id]
        ELSE IF kind = "FP+WG"
        THEN IF Raises(chain)
             THEN Iter(AttributeError, 1, << >>, << >>, layers) @@ [prev |-> prev_comp_node]
             ELSE Iter(NoError, 1, << add_parents(wg, chain) >>, << Tag(li, "bwd_wg_comp") >>,
                       [layers EXCEPT ![li + 1].bwd_ig_comp_node = None,
                                      ![li + 1].bwd_wg_comp_node = id])
                  @@ [prev |-> id]
        ELSE IF kind = "FP+IG+WG"
        THEN IF Raises(chain)
             THEN Iter(AttributeError, 2, << >>, << >>, layers) @@ [prev |-> prev_comp_node]
             ELSE Iter(NoError, 2, << add_parent(ig, id + 1), add_parents(wg2, chain) >>,
                       << Tag(li, "bwd_ig_comp"), Tag(li, "bwd_wg_comp") >>,
                       [layers EXCEPT ![li + 1].bwd_ig_comp_node = id,
                                      ![li + 1].bwd_wg_comp_node = id + 1])
                  @@ [prev |-> id]
        ELSE Iter(UnknownComputeType(kind), 0, << >>, << >>, layers) @@ [prev |-> prev_comp_node]

convert_custom_paralellism ==
    /\ parallelism_type = "CUSTOM"
    /\ \/ /\ pc = "fwd"
          /\ ApplyFwd(custom_forward)
          /\ fwd_comp_node' = next_node_id
          /\ prev_comp_node' = (IF idx + 1 < Len(layers) THEN prev_comp_node ELSE None)
          /\ UNCHANGED fwd_comm_node
       \/ /\ pc = "bwd"
          /\ ApplyBwd(custom_backward)
          /\ prev_comp_node' = custom_backward.prev
          /\ UNCHANGED <<fwd_comp_node, fwd_comm_node>>
    /\ UNCHANGED <<inputs, layer_types, npu_id>>

(***************************************************************************)
(* convert_hybrid_dlrm (lines 671-757)                                     *)
(***************************************************************************)
\* dlrm_fwd_parents without the link of layer b to layer 0's communication
dlrm_fwd_parents_no_gather(ls, i, b) ==
    (IF At(ls, i).bwd_wg_comm_node # None THEN << At(ls, i).bwd_wg_comm_node >>
     ELSE IF At(ls, i).bwd_wg_comp_node # None THEN << At(ls, i).bwd_wg_comp_node >>
     ELSE << >>)
    \o (IF i # 0 THEN << At(ls, i - 1).fwd_comp_node >> ELSE << >>)

\* the parents given to layer i's forward compute node, in order
dlrm_fwd_parents(ls, i, b) ==
    (IF At(ls, i).bwd_wg_comm_node # None THEN << At(ls, i).bwd_wg_comm_node >>
     ELSE IF At(ls, i).bwd_wg_comp_node # None THEN << At(ls, i).bwd_wg_comp_node >>
     ELSE << >>)
    \o (IF i # 0 THEN << At(ls, i - 1).fwd_comp_node >> ELSE << >>)
    \o (IF i = b THEN << At(ls, 0).fwd_comm_node >> ELSE << >>)

\* dlrm_has_fwd_comm when every kind but NONE gets a communication node
dlrm_has_fwd_comm_not_none(layer) == layer.fwd_comm_type # "NONE"

\* dlrm_has_fwd_comm when a layer whose slot holds a node gets no new one
dlrm_has_fwd_comm_once(layer) ==
    layer.fwd_comm_type = "ALLTOALL" /\ layer.fwd_comm_node = None

\* a forward communication node is made for the layer
dlrm_has_fwd_comm(layer) == layer.fwd_comm_type = "ALLTOALL"

\* a weight-gradient communication node is made for the layer
dlrm_has_wg_comm(layer) == layer.bwd_wg_comm_type # "NONE"

hybrid_dlrm_forward ==
    LET layer == At(layers, idx)
        id == next_node_id
        parents == dlrm_fwd_parents(layers, idx, last_bottom_layer)
        comp == add_parents(get_comp_node(id, layer.name, "FWD", layer.fwd_comp_time), parents)
        comm == add_parent(with_attr(get_comm_coll_node(id + 1, layer.name,
                               layer.fwd_comm_type, layer.fwd_comm_size), AllTrue), id)
    IN  IF Raises(parents)
        THEN Iter(AttributeError, 1, << >>, << >>, layers)
        ELSE IF dlrm_has_fwd_comm(layer)
        THEN Iter(NoError, 2, << comp, comm >>, << Tag(idx, "fwd_comp"), Tag(idx, "fwd_comm") >>,
                  [layers EXCEPT ![idx + 1].fwd_comp_node = id,
                                 ![idx + 1].fwd_comm_node = id + 1])
        ELSE Iter(NoError, 1, << comp >>, << Tag(idx, "fwd_comp") >>,
                  [layers EXCEPT ![idx + 1].fwd_comp_node = id])

\* the parents given to the weight-gradient compute node of backward
\* iteration i (from 0) over n layers, in order
dlrm_wg_parents(ls, i, n) ==
    IF i = 0 THEN << fwd_comp_node >>
    ELSE (IF At(ls, n - i).bwd_ig_comp_node # None
          THEN << At(ls, n - i).bwd_ig_comp_node >> ELSE << >>)
         \o (IF At(ls, n - i - 1).bwd_ig_comm_node # None
             THEN << At(ls, n - i - 1).bwd_ig_comm_node >> ELSE << >>)

\* dlrm_is_bridge with the bridge built at the boundary layer itself
dlrm_is_bridge_at_boundary(li, b) == li = b

\* the bridge is built in the backward iteration of layer li
dlrm_is_bridge(li, b) == li = b + 1

hybrid_dlrm_backward ==
    LET n == Len(layers)
        li == n - 1 - idx
        layer == At(layers, li)
        id == next_node_id
        parents == dlrm_wg_parents(layers, idx, n)
        wg == add_parents(get_comp_node(id, layer.name, "BWD_WG", layer.bwd_wg_comp_time),
                          parents)
        hasc == dlrm_has_wg_comm(layer)
        kc == IF hasc THEN 1 ELSE 0
        wgc == add_parent(with_attr(get_comm_coll_node(id + 1, layer.name,
                              layer.bwd_wg_comm_type, layer.bwd_wg_comm_size), AllTrue), id)
        hasig == idx # n - 1
        ki == IF hasig THEN 1 ELSE 0
        ig == add_parent(get_comp_node(id + kc + 1, layer.name, "BWD_IG",
                                       layer.bwd_ig_comp_time), id)
        bridge == dlrm_is_bridge(li, last_bottom_layer)
        kb == IF bridge THEN 1 ELSE 0
        br == add_parent(with_attr(get_comm_coll_node(id + kc + ki + 1, At(layers, 0).name,
                             At(layers, 0).bwd_ig_comm_type, At(layers, 0).bwd_ig_comm_size),
                             AllTrue), id + kc + 1)
        ls1 == [layers EXCEPT ![li + 1].bwd_wg_comp_node = id]
        ls2 == IF hasc THEN [ls1 EXCEPT ![li + 1].bwd_wg_comm_node = id + 1] ELSE ls1
        ls3 == IF hasig THEN [ls2 EXCEPT ![li + 1].bwd_ig_comp_node = id + kc + 1] ELSE ls2
        ls4 == IF bridge /\ hasig THEN [ls3 EXCEPT ![1].bwd_ig_comm_node = id + kc + ki + 1]
               ELSE ls3
        recs == << wg >> \o (IF hasc THEN << wgc >> ELSE << >>)
                     \o (IF hasig THEN << ig >> ELSE << >>)
        tags == << Tag(li, "bwd_wg_comp") >>
                     \o (IF hasc THEN << Tag(li, "bwd_wg_comm") >> ELSE << >>)
                     \o (IF hasig THEN << Tag(li, "bwd_ig_comp") >> ELSE << >>)
    IN  IF idx = 0 /\ fwd_comp_node = None
        THEN Iter(IsNone("fwd_comp_node is None"), 1, << >>, << >>, layers)
        ELSE IF Raises(parents)
        THEN Iter(AttributeError, 1, << >>, << >>, layers)
        ELSE IF bridge /\ ~hasig
        THEN Iter(IsNone("bwd_ig_comp_node is None"), 1 + kc + ki + kb, recs, tags, ls4)
        ELSE Iter(NoError, 1 + kc + ki + kb,
                  recs \o (IF bridge THEN << br >> ELSE << >>),
                  tags \o (IF bridge THEN << Tag(0, "bridge") >> ELSE << >>),
                  ls4)

convert_hybrid_dlrm ==
    /\ parallelism_type \in {"HYBRID_DLRM", "HYBRID_DLRM_ENHANCED"}
    /\ \/ /\ pc = "fwd"
          /\ ApplyFwd(hybrid_dlrm_forward)
          /\ fwd_comp_node' = next_node_id
          /\ UNCHANGED <<fwd_comm_node, prev_comp_node>>
       \/ /\ pc = "bwd"
          /\ ApplyBwd(hybrid_dlrm_backward)
          /\ UNCHANGED locals
    /\ UNCHANGED <<inputs, layer_types, npu_id>>

(***************************************************************************)
(* The run.                                                                *)
(***************************************************************************)
Next ==
    \/ convert
    \/ open_file
    \/ begin_pass
    \/ end_device
    \/ finish
    \/ convert_microbenchmark
    \/ convert_data_parallel
    \/ convert_model_parallel
    \/ convert_hybrid_data_model
    \/ convert_hybrid_model_data
    \/ convert_custom_paralellism
    \/ convert_hybrid_dlrm

Spec == Init /\ [][Next]_vars

(***************************************************************************)
(* Reading the files.                                                      *)
(***************************************************************************)
IsMeta(r) == r.type = "GlobalMetadata"

\* the positions of files[d] that hold a node
NodeIdx(d) == { k \in 1..Len(files[d]) : ~IsMeta(files[d][k]) }

\* the ids of the nodes of files[d], in the order written
IdsOf(d) ==
    LET ns == SelectSeq(files[d], LAMBDA r : ~IsMeta(r))
    IN  [k \in 1..Len(ns) |-> ns[k].id]

RECURSIVE IdsUpTo(_)
IdsUpTo(d) == IF d = 0 THEN << >> ELSE IdsUpTo(d - 1) \o IdsOf(d)

\* the ids of all nodes written, device 0's file first
EmittedIds == IdsUpTo(Len(files))

Terminal == pc \in {"done", "error"}

\* the declared layer count is the number of layer lines
WellFormed == num_layers = Len(lines)

\* the files whose device has been converted to the end
Finished == 1..(IF npu_id < Len(files) THEN npu_id ELSE Len(files))

\* pass p of files[d] has been generated to the end
CompletePass(d, p) ==
    \/ d \in Finished /\ p \in 0..(num_passes - 1)
    \/ d = npu_id + 1 /\ d <= Len(files) /\ p \in 0..(pass - 1)

\* the positions of files[d] written in pass p with the given role
Written(d, p, l, role) ==
    { k \in 1..Len(files[d]) : log[d][k] = [pass |-> p, layer |-> l, role |-> role] }

(***************************************************************************)
(* C1.  Every id in a written node's data_deps is the id of a node written *)
(* earlier to the same file and is less than the node's own id (stated for *)
(* the inputs whose declared layer count is right).                        *)
(***************************************************************************)
C1_NoForwardReference ==
    WellFormed => \A d \in 1..Len(files) : \A k \in NodeIdx(d) :
        \A j \in 1..Len(files[d][k].data_deps) :
            /\ files[d][k].data_deps[j] < files[d][k].id
            /\ \E m \in NodeIdx(d) : m < k /\ files[d][m].id = files[d][k].data_deps[j]

(***************************************************************************)
(* C2.  As claimed: the ids of the written nodes, device 0's file first,   *)
(* are 0, 1, 2, ... and every id taken from the counter is among them      *)
(* (stated for the inputs whose declared layer count is right).            *)
(***************************************************************************)
C2_EveryAllocatedIdEmitted ==
    WellFormed => EmittedIds = [k \in 1..next_node_id |-> k - 1]

(***************************************************************************)
(* C2, amended.  The ids of the written nodes, device 0's file first, are  *)
(* 0, 1, 2, ... without gap or repeat and the counter is not reset between *)
(* devices; the counter equals their number unless an exception has ended  *)
(* the run, in which case the ids beyond them were taken by the nodes      *)
(* under construction when it was raised, which are never written.         *)
(***************************************************************************)
C2_IdsConsecutiveInEmissionOrder ==
    /\ EmittedIds = [k \in 1..Len(EmittedIds) |-> k - 1]
    /\ Len(EmittedIds) <= next_node_id
    /\ error = NoError => Len(EmittedIds) = next_node_id
    /\ Len(EmittedIds) < next_node_id => pc = "error"

C2_Witness ==
    /\ pc = "done"
    /\ Len(files) = 2
    /\ NodeIdx(2) # {}
    /\ \E k \in NodeIdx(2) : files[2][k].id = Len(IdsOf(1))

(***************************************************************************)
(* C3.  CUSTOM, layers [not trainable, trainable], one pass, one device:   *)
(* at the end of the run layer 0 is FP and layer 1 is FP+WG, and the only  *)
(* backward node written is one BWD_WG node of layer 1.                    *)
(***************************************************************************)
C3_Scenario ==
    /\ parallelism_type = "CUSTOM"
    /\ Len(lines) = 2 /\ num_layers = 2
    /\ lines[1].reserved = 0 /\ lines[2].reserved = 1
    /\ num_passes = 1 /\ num_npus = 1

C3_OneWeightGradientForLayer1 ==
    (C3_Scenario /\ Terminal) =>
        /\ layer_types = << "FP", "FP+WG" >>
        /\ Len(files) = 1
        /\ \E k \in NodeIdx(1) :
              /\ files[1][k].name = << "COMP_NODE", lines[2].name, "BWD_WG" >>
              /\ \A m \in NodeIdx(1) \ {k} : files[1][m].name[3] = "FWD"

(***************************************************************************)
(* C4.  As claimed: HYBRID_DLRM, boundary 1, three layers of which only    *)
(* layer 1 has forward kind ALLTOALL: at the end of the run a forward      *)
(* communication node was written for layer 1 and for no other layer, and  *)
(* layer 1's forward compute node was written with a dependency on a       *)
(* forward communication node of layer 0.                                  *)
(***************************************************************************)
C4_Scenario ==
    /\ parallelism_type = "HYBRID_DLRM"
    /\ last_bottom_layer = 1
    /\ Len(lines) = 3
    /\ Unparsed(lines) = {}
    /\ lines[1].fwd_comm_type # "ALLTOALL"
    /\ lines[2].fwd_comm_type = "ALLTOALL"
    /\ lines[3].fwd_comm_type # "ALLTOALL"

C4_CommForLayer1AndGatherLink ==
    (C4_Scenario /\ Terminal) =>
        /\ Len(files) >= 1
        /\ Written(1, 0, 1, "fwd_comm") # {}
        /\ Written(1, 0, 0, "fwd_comm") = {}
        /\ Written(1, 0, 2, "fwd_comm") = {}
        /\ \E k \in Written(1, 0, 1, "fwd_comp") : \E m \in 1..(k - 1) :
              /\ log[1][m].layer = 0 /\ log[1][m].role = "fwd_comm"
              /\ files[1][m].id \in Range(files[1][k].data_deps)

(***************************************************************************)
(* C4, amended.  In that scenario layer 0 gets no forward communication    *)
(* node, so the link of layer 1's forward compute node to it raises: the   *)
(* run is aborted in the first forward sweep of device 0, the only node    *)
(* written is layer 0's forward compute node, no forward communication     *)
(* node is written for any layer and layer 1's compute node is not written.*)
(***************************************************************************)
C4_AbortsAtLayer1 ==
    C4_Scenario =>
        /\ pc \notin {"done", "bwd"}
        /\ Len(files) <= 1
        /\ \A d \in 1..Len(files) : \A k \in NodeIdx(d) :
              /\ log[d][k] = [pass |-> 0, layer |-> 0, role |-> "fwd_comp"]
              /\ files[d][k].name = << "COMP_NODE", lines[1].name, "FWD" >>
        /\ pc = "error" =>
              /\ error = AttributeError
              /\ Len(files) = 1 /\ Cardinality(NodeIdx(1)) = 1

C4_Witness == C4_Scenario /\ pc = "error" /\ next_node_id = 2

(***************************************************************************)
(* C5.  When the conversion of a device starts, every node slot of every   *)
(* layer is empty (stated for the inputs whose declared layer count is     *)
(* right).                                                                 *)
(***************************************************************************)
C5_SlotsEmptyAtDeviceStart ==
    (WellFormed /\ pc = "npu" /\ npu_id < num_npus) =>
        \A i \in 1..Len(layers) :
            /\ layers[i].fwd_comp_node = None /\ layers[i].fwd_comm_node = None
            /\ layers[i].bwd_ig_comp_node = None /\ layers[i].bwd_ig_comm_node = None
            /\ layers[i].bwd_wg_comp_node = None /\ layers[i].bwd_wg_comm_node = None

(***************************************************************************)
(* C6.  Any two traces that have been generated to the end (and, once the  *)
(* run is over, any two traces at all) are equal up to one constant added  *)
(* to every node id and every dependency id.                               *)
(***************************************************************************)
Shifted(r, c) ==
    IF IsMeta(r) THEN r
    ELSE [r EXCEPT !.id = @ + c,
                   !.data_deps = [j \in 1..Len(r.data_deps) |-> r.data_deps[j] + c]]

\* the first node id of files[d], 0 if it holds no node
FirstId(d) == IF IdsOf(d) = << >> THEN 0 ELSE IdsOf(d)[1]

ShiftEqual(d, e) ==
    /\ Len(files[d]) = Len(files[e])
    /\ \A k \in 1..Len(files[d]) :
          /\ k <= Len(files[e])
          /\ files[e][k] = Shifted(files[d][k], FirstId(e) - FirstId(d))

C6_DevicesDifferByIdShift ==
    \A d, e \in (IF Terminal THEN 1..Len(files) ELSE Finished) : ShiftEqual(d, e)

C6_Witness ==
    /\ pc = "done"
    /\ Len(files) = 2
    /\ num_passes = 2
    /\ FirstId(2) > 0
    /\ \E k \in NodeIdx(2) : Len(files[2][k].data_deps) = 2

(***************************************************************************)
(* C7.  In DATA, MODEL, the two HYBRID modes and HYBRID_DLRM, a forward    *)
(* compute node of pass p >= 1 depends on the same layer's weight-gradient *)
(* node of pass p - 1 of the same device (the communication node in DATA   *)
(* and the HYBRID modes, the compute node in MODEL, in HYBRID_DLRM the     *)
(* communication node if one was written and else the compute node); a     *)
(* forward compute node of pass 0 depends on no weight-gradient node.      *)
(***************************************************************************)
WgRole(d, p, l) ==
    IF parallelism_type = "MODEL" THEN "bwd_wg_comp"
    ELSE IF parallelism_type \in DlrmTags /\ Written(d, p, l, "bwd_wg_comm") = {}
    THEN "bwd_wg_comp"
    ELSE "bwd_wg_comm"

C7_ForwardChainsOffPreviousPass ==
    parallelism_type \in {"DATA", "MODEL", "HYBRID_DATA_MODEL", "HYBRID_MODEL_DATA"} \cup DlrmTags =>
        \A d \in 1..Len(files) : \A k \in NodeIdx(d) :
            log[d][k].role = "fwd_comp" =>
                IF log[d][k].pass >= 1
                THEN \E m \in Written(d, log[d][k].pass - 1, log[d][k].layer,
                                      WgRole(d, log[d][k].pass - 1, log[d][k].layer)) :
                        /\ m < k
                        /\ files[d][m].id \in Range(files[d][k].data_deps)
                ELSE \A e \in 1..Len(files) : \A m \in NodeIdx(e) :
                        log[e][m].role \in {"bwd_wg_comp", "bwd_wg_comm"} =>
                            files[e][m].id \notin Range(files[d][k].data_deps)

C7_Witness ==
    /\ parallelism_type = "HYBRID_DLRM"
    /\ Len(files) = 2
    /\ \E k \in NodeIdx(2) : log[2][k].role = "fwd_comp" /\ log[2][k].pass = 1
                             /\ WgRole(2, 0, log[2][k].layer) = "bwd_wg_comp"
    /\ \E k \in NodeIdx(2) : log[2][k].role = "fwd_comp" /\ log[2][k].pass = 1
                             /\ WgRole(2, 0, log[2][k].layer) = "bwd_wg_comm"

(***************************************************************************)
(* C8.  In every mode but CUSTOM each file holds exactly one               *)
(* GlobalMetadata record, its first record; in CUSTOM no file holds one.   *)
(***************************************************************************)
C8_MetadataFirstExceptCustom ==
    \A d \in 1..Len(files) :
        IF parallelism_type = "CUSTOM"
        THEN NodeIdx(d) = 1..Len(files[d])
        ELSE /\ Len(files[d]) >= 1
             /\ IsMeta(files[d][1])
             /\ NodeIdx(d) = 2..Len(files[d])

C8_Witness ==
    /\ pc = "done"
    /\ parallelism_type = "MODEL"
    /\ Len(files) = 2
    /\ Len(files[2]) > 1

(***************************************************************************)
(* C9.  MICRO with L layers and P passes: a file generated to the end      *)
(* holds the metadata record and then L * P collective nodes, pass by pass *)
(* in layer order, each with no dependency and an involved_dim of num_dims *)
(* true flags, and no computation node.                                    *)
(***************************************************************************)
C9_MicroTrace ==
    parallelism_type = "MICRO" =>
        \A d \in Finished :
            /\ Len(files[d]) = 1 + Len(lines) * num_passes
            /\ IsMeta(files[d][1])
            /\ \A p \in 0..(num_passes - 1) : \A i \in 1..Len(lines) :
                  LET r == files[d][1 + p * Len(lines) + i]
                  IN  /\ r.type = COMM_COLL_NODE
                      /\ r.name = << "COMM_COLL_NODE", lines[i].name, lines[i].bwd_wg_comm_type >>
                      /\ r.data_deps = << >>
                      /\ Len(r.attr) = 3
                      /\ r.attr[3] = [name |-> "involved_dim",
                                      bool_list |-> [j \in 1..num_dims |-> TRUE]]

C9_Witness ==
    /\ parallelism_type = "MICRO"
    /\ pc = "done"
    /\ Len(files) = 2
    /\ Len(lines) = MaxLayers /\ num_passes = 2 /\ num_dims = 2

(***************************************************************************)
(* C10.  DATA with L layers: each pass generated to the end holds L        *)
(* forward compute nodes, L weight-gradient compute nodes, L               *)
(* weight-gradient communication nodes and L - 1 input-gradient compute    *)
(* nodes, and nothing else.                                                *)
(***************************************************************************)
\* the positions of pass p in files[d] whose node has the given type and,
\* for a computation node, the given phase
OfPass(d, p, type, phase) ==
    { k \in NodeIdx(d) : /\ log[d][k].pass = p
                         /\ files[d][k].type = type
                         /\ (type = COMP_NODE => files[d][k].name[3] = phase) }

C10_DataNodesPerPass ==
    parallelism_type = "DATA" =>
        \A d \in 1..Len(files) : \A p \in 0..(num_passes - 1) :
            CompletePass(d, p) =>
                /\ Cardinality(OfPass(d, p, COMP_NODE, "FWD")) = Len(lines)
                /\ Cardinality(OfPass(d, p, COMP_NODE, "BWD_WG")) = Len(lines)
                /\ Cardinality(OfPass(d, p, COMM_COLL_NODE, "")) = Len(lines)
                /\ Cardinality(OfPass(d, p, COMP_NODE, "BWD_IG")) = Len(lines) - 1
                /\ Cardinality({ k \in NodeIdx(d) : log[d][k].pass = p }) = 4 * Len(lines) - 1

C10_Witness ==
    /\ parallelism_type = "DATA"
    /\ pc = "done"
    /\ Len(files) = 2
    /\ Len(lines) = MaxLayers /\ num_passes = 2

(***************************************************************************)
(* C11.  A link to an empty slot ends the run with an exception and the    *)
(* node that needed the parent is not written.  In HYBRID_DLRM: when the   *)
(* forward loop reaches layer B and layer 0 has no forward communication   *)
(* node, add_parent raises (AttributeError) and nothing is written in that *)
(* iteration although the node took its id; when the bridge is built for   *)
(* a layer that has no input-gradient compute node, ValueError             *)
(* "bwd_ig_comp_node is None" is raised and the bridge node, which took    *)
(* the last id, is not written.  In every mode, no written node has an     *)
(* absent parent among its dependencies, and after such an exception the   *)
(* counter is above the number of written nodes.                           *)
(***************************************************************************)
\* the forward loop is at layer B and layer 0 has no forward communication node
GatherWithoutComm ==
    /\ parallelism_type \in DlrmTags
    /\ pc = "fwd"
    /\ idx = last_bottom_layer
    /\ At(layers, 0).fwd_comm_node = None

\* the backward loop is at the layer after the boundary, which is the last
\* one it visits and gets no input-gradient compute node
BridgeWithoutInputGradient ==
    /\ parallelism_type \in DlrmTags
    /\ pc = "bwd"
    /\ Len(layers) - 1 - idx = last_bottom_layer + 1
    /\ idx = Len(layers) - 1

MissingDependency == { AttributeError, IsNone("bwd_ig_comp_node is None") }

C11_MissingDependencyAborts ==
    /\ [][ /\ GatherWithoutComm =>
                /\ pc' = "error" /\ error' = AttributeError
                /\ files' = files
                /\ next_node_id' = next_node_id + 1
           /\ BridgeWithoutInputGradient =>
                /\ pc' = "error" /\ error' = IsNone("bwd_ig_comp_node is None")
                /\ next_node_id' - 1 \notin Range(EmittedIds')
                /\ \A k \in 1..Len(log'[npu_id + 1]) : log'[npu_id + 1][k].role # "bridge"
         ]_vars
    /\ [](\A d \in 1..Len(files) : \A k \in NodeIdx(d) :
              None \notin Range(files[d][k].data_deps))
    /\ []((pc = "error" /\ error.type \in {"AttributeError", "ValueError"}
              /\ error.args = << >>) =>
              /\ error \in MissingDependency
              /\ Len(EmittedIds) < next_node_id)

C11_Witness ==
    /\ parallelism_type = "HYBRID_DLRM"
    /\ pc = "error"
    /\ error = IsNone("bwd_ig_comp_node is None")
    /\ Len(files) = 1 /\ NodeIdx(1) # {}
    /\ Len(EmittedIds) < next_node_id

(***************************************************************************)
(* C12.  A mode tag that is none of the eight accepted ones ends convert   *)
(* with ValueError "Unsupported parallelism type, <tag>": no file is       *)
(* opened, no record is written, no node id is taken (and no layer line is *)
(* read).                                                                  *)
(***************************************************************************)
C12_UnsupportedTagNoOutput ==
    parallelism_type \notin {"MICRO", "DATA", "MODEL", "HYBRID_DATA_MODEL", "HYBRID_MODEL_DATA",
                             "CUSTOM", "HYBRID_DLRM", "HYBRID_DLRM_ENHANCED"} =>
        /\ files = << >> /\ log = << >>
        /\ next_node_id = 0
        /\ layers = << >>
        /\ pc \in {"convert", "error"}
        /\ pc = "error" =>
              /\ error.type = "ValueError"
              /\ error.text = "Unsupported parallelism type, "
              /\ error.args = << parallelism_type >>

C12_Witness ==
    /\ parallelism_type = "PIPELINE"
    /\ pc = "error"
    /\ Len(lines) = MaxLayers
    /\ num_npus = 2

(***************************************************************************)
(* C13.  As claimed: whatever the mode tag, once convert has run on a file *)
(* with a layer line that lacks columns, the run has ended with ValueError *)
(* "Cannot parse the following layer -- <line>" carrying such a line, and  *)
(* no file was opened, no record written, no node id taken.                *)
(***************************************************************************)
\* the positions of the layer lines that lack columns
ShortLines == { i \in 1..Len(lines) : Cardinality(DOMAIN lines[i]) < 12 }

C13_MalformedLineIsParseError ==
    (ShortLines # {} /\ pc # "convert") =>
        /\ pc = "error"
        /\ error.type = "ValueError"
        /\ error.text = "Cannot parse the following layer -- "
        /\ \E i \in ShortLines : error.args = << lines[i] >>
        /\ files = << >> /\ log = << >>
        /\ next_node_id = 0

(***************************************************************************)
(* C13, amended.  The same for the eight accepted mode tags only (for any  *)
(* other tag the dispatch raises first and the layer lines are never       *)
(* read); the line carried is the first line that lacks columns, and a     *)
(* line beyond the declared layer count counts as well.                    *)
(***************************************************************************)
C13_ParseErrorForAcceptedTags ==
    (/\ parallelism_type \in {"MICRO", "DATA", "MODEL", "HYBRID_DATA_MODEL",
                               "HYBRID_MODEL_DATA", "CUSTOM", "HYBRID_DLRM",
                               "HYBRID_DLRM_ENHANCED"}
     /\ ShortLines # {}) =>
        /\ files = << >> /\ log = << >>
        /\ next_node_id = 0
        /\ pc \in {"convert", "error"}
        /\ pc = "error" =>
              /\ error.type = "ValueError"
              /\ error.text = "Cannot parse the following layer -- "
              /\ \E i \in ShortLines :
                    /\ error.args = << lines[i] >>
                    /\ \A j \in ShortLines : i <= j

C13_Witness ==
    /\ parallelism_type = "HYBRID_DLRM"
    /\ pc = "error"
    /\ Len(lines) = 3 /\ num_layers = 2
    /\ ShortLines = {2, 3}
    /\ error.args = << lines[2] >>

(***************************************************************************)
(* C14.  In MICRO, DATA, MODEL and the two HYBRID modes a kind string that *)
(* is not one of ALLREDUCE, ALLTOALL, ALLGATHER, REDUCESCATTER raises      *)
(* nothing: every collective node written for a layer and phase with such  *)
(* a kind carries comm_type 0 (and one with a named kind does not); when   *)
(* the declared count is the number of lines the run never ends with an    *)
(* exception, and every pass generated to the end holds the collective     *)
(* node of every layer and phase the mode has, whatever the kind.          *)
(***************************************************************************)
NamedKinds == {"ALLREDUCE", "ALLTOALL", "ALLGATHER", "REDUCESCATTER"}

\* the kind string of layer l (from 0) for the phase of a collective role
KindOf(l, role) ==
    IF role = "fwd_comm" THEN lines[l + 1].fwd_comm_type
    ELSE IF role = "bwd_ig_comm" THEN lines[l + 1].bwd_ig_comm_type
    ELSE lines[l + 1].bwd_wg_comm_type

\* the collective roles a mode writes for layer l (from 0)
CollectiveRoles(mode, l) ==
    IF mode \in {"MICRO", "DATA"} THEN {"bwd_wg_comm"}
    ELSE (IF mode = "MODEL" THEN {"fwd_comm"} ELSE {"fwd_comm", "bwd_wg_comm"})
         \cup (IF l > 0 THEN {"bwd_ig_comm"} ELSE {})

C14_UnknownKindIsNotAnError ==
    parallelism_type \in {"MICRO", "DATA", "MODEL", "HYBRID_DATA_MODEL", "HYBRID_MODEL_DATA"} =>
        /\ \A d \in 1..Len(files) : \A k \in NodeIdx(d) :
              files[d][k].type = COMM_COLL_NODE =>
                  /\ files[d][k].attr[1].name = "comm_type"
                  /\ (KindOf(log[d][k].layer, log[d][k].role) \notin NamedKinds)
                        <=> (files[d][k].attr[1].int64_val = UNKNOWN)
        /\ (WellFormed /\ ShortLines = {}) =>
              /\ pc # "error"
              /\ \A d \in 1..Len(files) : \A p \in 0..(num_passes - 1) :
                    CompletePass(d, p) =>
                        \A l \in 0..(Len(lines) - 1) :
                            \A role \in CollectiveRoles(parallelism_type, l) :
                                Cardinality(Written(d, p, l, role)) = 1

C14_Witness ==
    /\ parallelism_type = "HYBRID_MODEL_DATA"
    /\ pc = "done"
    /\ Len(files) = 2
    /\ \A role \in {"fwd_comm", "bwd_ig_comm", "bwd_wg_comm"} :
          \E k \in NodeIdx(2) : /\ log[2][k].role = role
                                 /\ log[2][k].pass = 1
                                 /\ files[2][k].attr[1].int64_val = UNKNOWN

(***************************************************************************)
(* C15.  CUSTOM, declared count right: in every pass generated to the end  *)
(* the backward nodes come in reverse layer order, and each layer has,     *)
(* under its own name, the backward nodes of its own kind: none for FP,    *)
(* one BWD_IG for FP+IG, one BWD_WG for FP+WG, one of each for FP+IG+WG    *)
(* with the BWD_IG node depending on the BWD_WG node.                      *)
(***************************************************************************)
\* the positions of pass p in files[d] that hold the node of layer l
\* (from 0) with the given phase in its name
Named(d, p, l, phase) ==
    { k \in NodeIdx(d) : /\ log[d][k].pass = p
                         /\ files[d][k].name = << "COMP_NODE", lines[l + 1].name, phase >> }

C15_BackwardSweepByOwnKind ==
    (parallelism_type = "CUSTOM" /\ WellFormed) =>
        \A d \in 1..Len(files) : \A p \in 0..(num_passes - 1) :
            CompletePass(d, p) =>
                /\ \A l \in 0..(Len(lines) - 1) :
                      LET kind == layer_types[l + 1]
                      IN  /\ Cardinality(Named(d, p, l, "BWD_IG")) =
                                (IF kind \in {"FP+IG", "FP+IG+WG"} THEN 1 ELSE 0)
                          /\ Cardinality(Named(d, p, l, "BWD_WG")) =
                                (IF kind \in {"FP+WG", "FP+IG+WG"} THEN 1 ELSE 0)
                          /\ kind = "FP+IG+WG" =>
                                \A k \in Named(d, p, l, "BWD_IG") :
                                    \A m \in Named(d, p, l, "BWD_WG") :
                                        files[d][m].id \in Range(files[d][k].data_deps)
                /\ \A l1, l2 \in 0..(Len(lines) - 1) :
                      \A k \in Named(d, p, l1, "BWD_IG") \cup Named(d, p, l1, "BWD_WG") :
                          \A m \in Named(d, p, l2, "BWD_IG") \cup Named(d, p, l2, "BWD_WG") :
                              k < m => l1 >= l2

(***************************************************************************)
(* C16.  CUSTOM with a declared count equal to the number of layer lines   *)
(* (at least one, all of them whole): the run never ends with an           *)
(* exception.                                                              *)
(***************************************************************************)
C16_CustomNeverRaises ==
    (parallelism_type = "CUSTOM" /\ WellFormed /\ ShortLines = {}) => pc # "error"

(***************************************************************************)
(* C17.  CUSTOM classification: once the layers are classified, layer i's  *)
(* kind has an input-gradient part exactly when some layer before it is    *)
(* trainable and a weight-gradient part exactly when it is trainable       *)
(* itself; so the FP layers form a prefix and at most one layer is FP+WG.  *)
(* The layers classified are the first num_layers ones (all of them when   *)
(* the declared count exceeds the number of lines).                        *)
(***************************************************************************)
C17_CustomClassification ==
    (parallelism_type = "CUSTOM" /\ pc # "convert" /\ ShortLines = {}) =>
        /\ Len(layer_types) = (IF num_layers < Len(lines) THEN num_layers ELSE Len(lines))
        /\ \A i \in 1..Len(layer_types) :
              /\ layer_types[i] \in {"FP", "FP+IG", "FP+WG", "FP+IG+WG"}
              /\ (layer_types[i] \in {"FP+IG", "FP+IG+WG"})
                    <=> (\E j \in 1..(i - 1) : lines[j].reserved > 0)
              /\ (layer_types[i] \in {"FP+WG", "FP+IG+WG"}) <=> (lines[i].reserved > 0)
        /\ \A i, j \in 1..Len(layer_types) :
              (i < j /\ layer_types[j] = "FP") => layer_types[i] = "FP"
        /\ Cardinality({ i \in 1..Len(layer_types) : layer_types[i] = "FP+WG" }) <= 1

C17_Witness ==
    /\ parallelism_type = "CUSTOM"
    /\ pc = "npu"
    /\ layer_types = << "FP", "FP+WG", "FP+IG" >>

(***************************************************************************)
(* C19.  DATA, every pass of every device.  Forward: layer i's compute     *)
(* node depends on layer i - 1's of the same pass (i > 0).  Backward, in   *)
(* reverse layer order: the weight-gradient compute node of the last layer *)
(* depends only on the last forward compute node of the pass, that of      *)
(* another layer i only on layer i + 1's input-gradient compute node of    *)
(* the pass; it is immediately followed by the layer's weight-gradient     *)
(* communication node, which depends only on it; an input-gradient compute *)
(* node, depending only on the layer's weight-gradient compute node, is    *)
(* written for every layer but layer 0.                                    *)
(***************************************************************************)
\* the id of the one node of pass p of files[d] written for layer l with
\* the given role before position k, None if there is not exactly one
IdBefore(d, p, l, role, k) ==
    LET ks == { m \in Written(d, p, l, role) : m < k }
    IN  IF Cardinality(ks) = 1 THEN files[d][CHOOSE m \in ks : TRUE].id ELSE None

\* the name of a computation node of layer l (from 0)
CompName(l, phase) == << "COMP_NODE", lines[l + 1].name, phase >>

C19_DataDependencies ==
    parallelism_type = "DATA" =>
        \A d \in 1..Len(files) :
            /\ \A k \in NodeIdx(d) :
                  LET r == files[d][k]
                      p == log[d][k].pass
                      l == log[d][k].layer
                      role == log[d][k].role
                      last == Len(lines) - 1
                  IN  /\ role \in {"fwd_comp", "bwd_wg_comp", "bwd_wg_comm", "bwd_ig_comp"}
                      /\ role = "fwd_comp" =>
                            /\ r.name = CompName(l, "FWD")
                            /\ l > 0 => IdBefore(d, p, l - 1, "fwd_comp", k) \in Range(r.data_deps)
                      /\ role = "bwd_wg_comp" =>
                            /\ r.name = CompName(l, "BWD_WG")
                            /\ r.data_deps =
                                  (IF l = last THEN << IdBefore(d, p, last, "fwd_comp", k) >>
                                   ELSE << IdBefore(d, p, l + 1, "bwd_ig_comp", k) >>)
                            /\ None \notin Range(r.data_deps)
                            /\ k < Len(files[d])
                            /\ log[d][k + 1] = [pass |-> p, layer |-> l, role |-> "bwd_wg_comm"]
                      /\ role = "bwd_wg_comm" =>
                            /\ r.type = COMM_COLL_NODE
                            /\ log[d][k - 1] = [pass |-> p, layer |-> l, role |-> "bwd_wg_comp"]
                            /\ r.data_deps = << files[d][k - 1].id >>
                      /\ role = "bwd_ig_comp" =>
                            /\ r.name = CompName(l, "BWD_IG")
                            /\ l # 0
                            /\ r.data_deps = << IdBefore(d, p, l, "bwd_wg_comp", k) >>
                            /\ None \notin Range(r.data_deps)
                      \* reverse layer order of the backward sweep
                      /\ \A m \in NodeIdx(d) :
                            (/\ m < k /\ log[d][m].pass = p
                             /\ role # "fwd_comp" /\ log[d][m].role # "fwd_comp") =>
                                log[d][m].layer >= l
            /\ \A p \in 0..(num_passes - 1) :
                  CompletePass(d, p) =>
                      \A l \in 1..(Len(lines) - 1) :
                          Cardinality(Written(d, p, l, "bwd_ig_comp")) = 1

C19_Witness ==
    /\ parallelism_type = "DATA"
    /\ pc = "done"
    /\ Len(files) = 2
    /\ Len(lines) = MaxLayers
    /\ \E k \in Written(2, 1, 0, "bwd_wg_comp") :
          /\ files[2][k].data_deps = << IdBefore(2, 1, 1, "bwd_ig_comp", k) >>
          /\ IdBefore(2, 1, 1, "bwd_ig_comp", k) # None

(***************************************************************************)
(* C20.  MODEL, every pass of every device.  Forward: each layer's compute *)
(* node is immediately followed by its communication node, which depends   *)
(* only on it; layer i's compute node (i > 0) depends on layer i - 1's     *)
(* communication node of the pass and not on its compute node.  Backward:  *)
(* the input-gradient compute node of the last layer depends only on the   *)
(* last forward communication node, that of another layer i on layer       *)
(* i + 1's weight-gradient compute node and input-gradient communication   *)
(* node of the pass; the input-gradient communication node depends only on *)
(* the layer's input-gradient compute node and, the declared count being   *)
(* right, is written for every layer but layer 0; the weight-gradient      *)
(* compute node depends only on the layer's input-gradient compute node    *)
(* and is written for every layer.                                         *)
(***************************************************************************)
C20_ModelDependencies ==
    parallelism_type = "MODEL" =>
        \A d \in 1..Len(files) :
            /\ \A k \in NodeIdx(d) :
                  LET r == files[d][k]
                      p == log[d][k].pass
                      l == log[d][k].layer
                      role == log[d][k].role
                      last == Len(lines) - 1
                  IN  /\ role \in {"fwd_comp", "fwd_comm", "bwd_ig_comp", "bwd_ig_comm", "bwd_wg_comp"}
                      /\ role = "fwd_comp" =>
                            /\ r.name = CompName(l, "FWD")
                            /\ k < Len(files[d])
                            /\ log[d][k + 1] = [pass |-> p, layer |-> l, role |-> "fwd_comm"]
                            /\ l > 0 =>
                                  /\ IdBefore(d, p, l - 1, "fwd_comm", k) \in Range(r.data_deps)
                                  /\ IdBefore(d, p, l - 1, "fwd_comp", k) \notin Range(r.data_deps)
                                  /\ IdBefore(d, p, l - 1, "fwd_comp", k) # None
                      /\ role = "fwd_comm" =>
                            /\ r.type = COMM_COLL_NODE
                            /\ log[d][k - 1] = [pass |-> p, layer |-> l, role |-> "fwd_comp"]
                            /\ r.data_deps = << files[d][k - 1].id >>
                      /\ role = "bwd_ig_comp" =>
                            /\ r.name = CompName(l, "BWD_IG")
                            /\ r.data_deps =
                                  (IF l = last THEN << IdBefore(d, p, last, "fwd_comm", k) >>
                                   ELSE << IdBefore(d, p, l + 1, "bwd_wg_comp", k),
                                           IdBefore(d, p, l + 1, "bwd_ig_comm", k) >>)
                            /\ None \notin Range(r.data_deps)
                      /\ role = "bwd_ig_comm" =>
                            /\ r.type = COMM_COLL_NODE
                            /\ r.data_deps = << IdBefore(d, p, l, "bwd_ig_comp", k) >>
                            /\ None \notin Range(r.data_deps)
                            /\ WellFormed => l # 0
                      /\ role = "bwd_wg_comp" =>
                            /\ r.name = CompName(l, "BWD_WG")
                            /\ r.data_deps = << IdBefore(d, p, l, "bwd_ig_comp", k) >>
                            /\ None \notin Range(r.data_deps)
            /\ \A p \in 0..(num_passes - 1) :
                  CompletePass(d, p) =>
                      \A l \in 0..(Len(lines) - 1) :
                          /\ Cardinality(Written(d, p, l, "bwd_wg_comp")) = 1
                          /\ Cardinality(Written(d, p, l, "bwd_ig_comp")) = 1
                          /\ (WellFormed /\ l > 0) =>
                                Cardinality(Written(d, p, l, "bwd_ig_comm")) = 1

C20_Witness ==
    /\ parallelism_type = "MODEL"
    /\ pc = "done"
    /\ WellFormed
    /\ Len(files) = 2
    /\ Len(lines) = MaxLayers
    /\ \E k \in Written(2, 1, 0, "bwd_ig_comp") : Len(files[2][k].data_deps) = 2

(***************************************************************************)
(* C18.  As claimed: device 0's trace of a HYBRID_DATA_MODEL or            *)
(* HYBRID_MODEL_DATA run, its weight-gradient communication nodes (and the *)
(* edges into them) removed, is the trace MODEL writes for the same input: *)
(* the same nodes in the same order with the same dependency edges, up to  *)
(* the ids and the involved_dim values (and the spelling of the names of   *)
(* the input-gradient communication nodes).  Stated for the inputs whose   *)
(* declared layer count is right.                                          *)
(***************************************************************************)
\* the nodes of device 0's file
Nodes0 == SelectSeq(files[1], LAMBDA r : ~IsMeta(r))

\* position k of the node sequence t holds a weight-gradient communication
\* node: a collective whose parent is a BWD_WG compute node
IsWgComm(t, k) ==
    /\ t[k].type = COMM_COLL_NODE
    /\ \E m \in 1..Len(t) : /\ t[m].id \in Range(t[k].data_deps)
                             /\ t[m].type = COMP_NODE
                             /\ t[m].name[3] = "BWD_WG"

Kept(t) == { k \in 1..Len(t) : ~IsWgComm(t, k) }

\* the position in t of the node with the given id
PosOf(t, id) == CHOOSE k \in 1..Len(t) : t[k].id = id

\* the number of kept nodes before position k: the new id of a kept node
Rank(t, k) == Cardinality({ m \in Kept(t) : m < k })

\* The new ids of the kept nodes that the node at position k depends on;
\* an edge into a removed node is dropped or, with reroute, replaced by
\* the edges to the removed node's own parents.
NewDeps(t, k, reroute) ==
    UNION { IF PosOf(t, id) \in Kept(t) THEN { Rank(t, PosOf(t, id)) }
            ELSE IF reroute
            THEN { Rank(t, PosOf(t, up)) : up \in Range(t[PosOf(t, id)].data_deps) }
            ELSE {} :
            id \in Range(t[k].data_deps) }

\* a name without the "_IG_COMM_" that convert_hybrid_data_model inserts
PlainName(name) == IF Len(name) = 4 THEN << name[1], name[2], name[4] >> ELSE name

\* The node sequence t without its weight-gradient communication nodes,
\* renumbered, its involved_dim attributes left out.
Structure(t, reroute) ==
    [ j \in 1..Cardinality(Kept(t)) |->
        LET k == CHOOSE m \in Kept(t) : Rank(t, m) = j - 1
        IN  [ type |-> t[k].type, name |-> PlainName(t[k].name),
              duration_micros |-> t[k].duration_micros,
              attr |-> SelectSeq(t[k].attr, LAMBDA a : a.name # "involved_dim"),
              deps |-> NewDeps(t, k, reroute) ] ]

\* device 0 has just been converted to the end by a hybrid builder
HybridDevice0Done ==
    /\ parallelism_type \in {"HYBRID_DATA_MODEL", "HYBRID_MODEL_DATA"}
    /\ pc = "npu" /\ npu_id = 1

C18_HybridIsModelPlusWgComm ==
    (HybridDevice0Done /\ WellFormed) =>
        Structure(Nodes0, FALSE) = Structure(model_trace("MODEL"), FALSE)

(***************************************************************************)
(* C18, amended.  The two traces have the same nodes in the same order,    *)
(* and the same edges once every edge into a removed weight-gradient       *)
(* communication node is replaced by the edge to that node's parent, the   *)
(* weight-gradient compute node: from the second pass on a hybrid forward  *)
(* compute node depends on the previous pass's weight-gradient             *)
(* communication node where MODEL's depends on the compute node.           *)
(* HYBRID_DATA_MODEL also spells the names of its input-gradient           *)
(* communication nodes with an inserted "_IG_COMM_".  (For each of the     *)
(* three builders the trace taken as a function of the input is the one    *)
(* written step by step.)                                                  *)
(***************************************************************************)
C18_HybridIsModelUpToWgCommEdges ==
    /\ HybridDevice0Done =>
          /\ Structure(Nodes0, TRUE) = Structure(model_trace("MODEL"), TRUE)
          /\ Cardinality(Kept(Nodes0)) = Len(model_trace("MODEL"))
          /\ Len(Nodes0) - Cardinality(Kept(Nodes0)) = Len(lines) * num_passes
    /\ (/\ parallelism_type \in {"MODEL", "HYBRID_DATA_MODEL", "HYBRID_MODEL_DATA"}
        /\ pc = "npu" /\ npu_id = 1) =>
          Nodes0 = model_trace(parallelism_type)

C18_Witness ==
    /\ HybridDevice0Done
    /\ parallelism_type = "HYBRID_DATA_MODEL"
    /\ WellFormed
    /\ Len(lines) = MaxLayers
    /\ num_passes = 2
    /\ Structure(Nodes0, TRUE) # Structure(Nodes0, FALSE)

(***************************************************************************)
(* C21.  HYBRID_DLRM with boundary B, 1 <= B + 1 <= L - 1: every pass      *)
(* generated to the end holds exactly one bridge node; it is written right *)
(* after the input-gradient compute node of layer B + 1, that node is its  *)
(* only dependency, and the one node of the pass that depends on it is     *)
(* layer 0's weight-gradient compute node, written later.                  *)
(***************************************************************************)
\* the positions of pass p of files[d] that hold a bridge node
Bridges(d, p) == { k \in 1..Len(files[d]) : log[d][k].pass = p /\ log[d][k].role = "bridge" }

\* the bridge is due: the layer after the boundary exists and is not layer 0
BridgeDue == last_bottom_layer + 1 >= 1 /\ last_bottom_layer + 1 <= Len(lines) - 1

C21_OneBridgePerPass ==
    (parallelism_type \in DlrmTags /\ BridgeDue) =>
        \A d \in 1..Len(files) : \A p \in 0..(num_passes - 1) :
            CompletePass(d, p) =>
                /\ Cardinality(Bridges(d, p)) = 1
                /\ \A k \in Bridges(d, p) :
                      LET r == files[d][k]
                      IN  /\ r.type = COMM_COLL_NODE
                          /\ log[d][k - 1] = [pass |-> p, layer |-> last_bottom_layer + 1,
                                              role |-> "bwd_ig_comp"]
                          /\ r.data_deps = << files[d][k - 1].id >>
                          /\ \A m \in NodeIdx(d) :
                                (log[d][m].pass = p /\ r.id \in Range(files[d][m].data_deps))
                                    <=> (m > k /\ log[d][m] = [pass |-> p, layer |-> 0,
                                                               role |-> "bwd_wg_comp"])
                          /\ Cardinality(Written(d, p, 0, "bwd_wg_comp")) = 1

C21_Witness ==
    /\ parallelism_type = "HYBRID_DLRM"
    /\ BridgeDue
    /\ pc = "done"
    /\ Len(files) = 2
    /\ num_passes = 2
    /\ Bridges(2, 1) # {}
    /\ \E m \in Written(2, 1, 0, "bwd_wg_comp") : \E k \in Bridges(2, 1) :
          files[2][k].id \in Range(files[2][m].data_deps)

(***************************************************************************)
(* C22.  HYBRID_DLRM: every bridge node written has the communication kind *)
(* ALL_TO_ALL, whatever kinds the layer lines name (stated for the inputs  *)
(* whose declared layer count is right).                                   *)
(***************************************************************************)
C22_BridgeIsAllToAll ==
    (parallelism_type \in DlrmTags /\ WellFormed) =>
        \A d \in 1..Len(files) : \A k \in NodeIdx(d) :
            log[d][k].role = "bridge" =>
                /\ files[d][k].attr[1].name = "comm_type"
                /\ files[d][k].attr[1].int64_val = ALL_TO_ALL

(***************************************************************************)
(* C23.  HYBRID_DLRM, every layer and pass: the forward compute node is    *)
(* directly followed by the layer's forward communication node exactly     *)
(* when the layer's forward kind is ALLTOALL, the weight-gradient compute  *)
(* node by the layer's weight-gradient communication node exactly when its *)
(* weight-gradient kind is not NONE; such a communication node depends     *)
(* only on that compute node, and none is written elsewhere.               *)
(***************************************************************************)
\* position k of files[d] holds a compute node of the given role that is
\* directly followed by the same layer's and pass's communication node
FollowedBy(d, k, comm_role) ==
    /\ k + 1 <= Len(files[d])
    /\ log[d][k + 1] = [log[d][k] EXCEPT !.role = comm_role]

C23_DlrmCommByKind ==
    parallelism_type \in DlrmTags =>
        \A d \in 1..Len(files) : \A k \in NodeIdx(d) :
            LET t == log[d][k]
                line == lines[t.layer + 1]
            IN  /\ t.role = "fwd_comp" =>
                      (FollowedBy(d, k, "fwd_comm") <=> line.fwd_comm_type = "ALLTOALL")
                /\ t.role = "bwd_wg_comp" =>
                      (FollowedBy(d, k, "bwd_wg_comm") <=> line.bwd_wg_comm_type # "NONE")
                /\ t.role \in {"fwd_comm", "bwd_wg_comm"} =>
                      /\ files[d][k].type = COMM_COLL_NODE
                      /\ k - 1 \in NodeIdx(d)
                      /\ files[d][k - 1].type = COMP_NODE
                      /\ log[d][k - 1] = [t EXCEPT !.role = IF t.role = "fwd_comm"
                                                              THEN "fwd_comp" ELSE "bwd_wg_comp"]
                      /\ files[d][k].data_deps = << files[d][k - 1].id >>

C23_Witness ==
    /\ parallelism_type = "HYBRID_DLRM"
    /\ pc = "done"
    /\ Len(files) = 2
    /\ num_passes = 2
    /\ \E l \in 0..(Len(lines) - 1) :
          /\ Written(2, 1, l, "fwd_comm") # {}
          /\ Written(2, 1, l, "bwd_wg_comm") # {}
    /\ \E l \in 0..(Len(lines) - 1) :
          /\ lines[l + 1].fwd_comm_type = "REDUCESCATTER"
          /\ lines[l + 1].bwd_wg_comm_type = "ALLGATHER"
          /\ Written(2, 1, l, "fwd_comp") # {}
          /\ Written(2, 1, l, "fwd_comm") = {}
          /\ Written(2, 1, l, "bwd_wg_comm") # {}
    /\ \E l \in 0..(Len(lines) - 1) :
          /\ Written(2, 1, l, "bwd_wg_comp") # {}
          /\ Written(2, 1, l, "bwd_wg_comm") = {}

(***************************************************************************)
(* C24.  HYBRID_DLRM with boundary B >= 0: the forward compute node of     *)
(* layer B, whenever written, has as its last dependency the forward       *)
(* communication node of layer 0 written before it in the same pass of the *)
(* same file, and depends on no forward communication node of layer 0 of   *)
(* another pass or another file.                                           *)
(***************************************************************************)
\* the ids of layer 0's forward communication nodes written anywhere but
\* in pass p of files[d] before position k
StaleGathers(d, p, k) ==
    { files[e][m].id : <<e, m>> \in
        { x \in UNION { { <<f, n>> : n \in NodeIdx(f) } : f \in 1..Len(files) } :
            /\ log[x[1]][x[2]].layer = 0
            /\ log[x[1]][x[2]].role = "fwd_comm"
            /\ ~(x[1] = d /\ log[x[1]][x[2]].pass = p /\ x[2] < k) } }

C24_GatherIsOfSamePass ==
    (parallelism_type \in DlrmTags /\ last_bottom_layer >= 0) =>
        \A d \in 1..Len(files) : \A k \in NodeIdx(d) :
            (log[d][k].role = "fwd_comp" /\ log[d][k].layer = last_bottom_layer) =>
                LET deps == files[d][k].data_deps
                    p == log[d][k].pass
                IN  /\ deps # << >>
                    /\ IdBefore(d, p, 0, "fwd_comm", k) # None
                    /\ deps[Len(deps)] = IdBefore(d, p, 0, "fwd_comm", k)
                    /\ Range(deps) \cap StaleGathers(d, p, k) = {}

C24_Witness ==
    /\ parallelism_type = "HYBRID_DLRM"
    /\ last_bottom_layer >= 1
    /\ pc = "done"
    /\ Len(files) = 2
    /\ num_passes = 2
    /\ \E k \in Written(2, 1, last_bottom_layer, "fwd_comp") :
          /\ IdBefore(2, 1, 0, "fwd_comm", k) \in Range(files[2][k].data_deps)
          /\ StaleGathers(2, 1, k) # {}

(***************************************************************************)
(* C25.  For num_dims >= 1 the involved_dim vector of every collective     *)
(* node written is: in HYBRID_DATA_MODEL first entry true and the others   *)
(* false on forward and input-gradient communication nodes, first entry    *)
(* false and the others true on weight-gradient communication nodes; in    *)
(* HYBRID_MODEL_DATA the inverse; in MICRO, DATA, MODEL and HYBRID_DLRM    *)
(* all entries true.                                                       *)
(***************************************************************************)
\* a vector of num_dims flags: the first entry and all the others
DimVector(first, others) == [j \in 1..num_dims |-> IF j = 1 THEN first ELSE others]

\* the vector expected on a collective node written with the given role
ExpectedDims(mode, role) ==
    IF mode = "HYBRID_DATA_MODEL"
    THEN (IF role = "bwd_wg_comm" THEN DimVector(FALSE, TRUE) ELSE DimVector(TRUE, FALSE))
    ELSE IF mode = "HYBRID_MODEL_DATA"
    THEN (IF role = "bwd_wg_comm" THEN DimVector(TRUE, FALSE) ELSE DimVector(FALSE, TRUE))
    ELSE DimVector(TRUE, TRUE)

C25_InvolvedDimByMode ==
    num_dims >= 1 =>
        \A d \in 1..Len(files) : \A k \in NodeIdx(d) :
            files[d][k].type = COMM_COLL_NODE =>
                /\ log[d][k].role \in {"fwd_comm", "bwd_ig_comm", "bwd_wg_comm", "bridge"}
                /\ Len(files[d][k].attr) = 3
                /\ files[d][k].attr[3].name = "involved_dim"
                /\ files[d][k].attr[3].bool_list = ExpectedDims(parallelism_type, log[d][k].role)

C25_Witness ==
    /\ parallelism_type = "HYBRID_DATA_MODEL"
    /\ num_dims = 2
    /\ pc = "done"
    /\ Len(files) = 2
    /\ \E l \in 0..(Len(lines) - 1) :
          /\ \E k \in Written(2, 0, l, "fwd_comm") :
                files[2][k].attr[3].bool_list = << TRUE, FALSE >>
          /\ \E k \in Written(2, 0, l, "bwd_ig_comm") :
                files[2][k].attr[3].bool_list = << TRUE, FALSE >>
          /\ \E k \in Written(2, 0, l, "bwd_wg_comm") :
                files[2][k].attr[3].bool_list = << FALSE, TRUE >>

(***************************************************************************)
(* C26.  In every mode and for every num_dims >= 0: a collective node      *)
(* written has exactly the attributes comm_type, comm_size, involved_dim,  *)
(* in this order, with an involved_dim of exactly num_dims entries; a      *)
(* computation node written has no attribute (stated for the inputs whose  *)
(* declared layer count is right).                                         *)
(***************************************************************************)
C26_CollectiveAttributes ==
    WellFormed =>
        \A d \in 1..Len(files) : \A k \in NodeIdx(d) :
            LET r == files[d][k]
            IN  IF r.type = COMM_COLL_NODE
                THEN /\ Len(r.attr) = 3
                     /\ r.attr[1].name = "comm_type"
                     /\ r.attr[2].name = "comm_size"
                     /\ r.attr[3].name = "involved_dim"
                     /\ Len(r.attr[3].bool_list) = num_dims
                ELSE r.attr = << >>

(***************************************************************************)
(* C27.  Every builder sweeps exactly the declared number of layers: a     *)
(* pass generated to the end holds nodes of num_layers layers, and the     *)
(* layer of its backward sweep that gets no input-gradient communication   *)
(* node (MODEL and the two hybrid modes) or no input-gradient compute node *)
(* (DATA, HYBRID_DLRM) is layer 0, whatever number of lines follows the    *)
(* header.                                                                 *)
(***************************************************************************)
\* the layers that have a node in pass p of files[d]
SweptLayers(d, p) == { log[d][k].layer : k \in { m \in NodeIdx(d) : log[d][m].pass = p } }

\* the role of the input-gradient node that the builder leaves out for the
\* last layer of its backward sweep
SkippedRole ==
    IF parallelism_type \in {"MODEL", "HYBRID_DATA_MODEL", "HYBRID_MODEL_DATA"}
    THEN "bwd_ig_comm" ELSE "bwd_ig_comp"

C27_SweepsDeclaredLayers ==
    \A d \in 1..Len(files) : \A p \in 0..(num_passes - 1) :
        CompletePass(d, p) =>
            /\ Cardinality(SweptLayers(d, p)) = num_layers
            /\ parallelism_type \notin {"MICRO", "CUSTOM"} =>
                  { l \in SweptLayers(d, p) : Written(d, p, l, SkippedRole) = {} } = {0}

====
